---- MODULE Spec2Model ----
(***************************************************************************)
(* jpeg-recompress: the quality search of main() and the selection of the  *)
(* output that follows it (src/ssim.go, lines 277-416), with the codec     *)
(* (encodeToJPEGBytes, jpeg.Decode, ssim) as a deterministic environment   *)
(* whose answers are drawn the first time a (image, quality) pair is       *)
(* asked for and remembered afterwards.                                    *)
(*                                                                         *)
(* Sizes are small positive integers.  A similarity index k stands for the *)
(* float k / IndexScale, so IndexScale is 1.0; NaN is the index of a       *)
(* one-pixel image (mean divides by w*h-1 = 0).                            *)
(***************************************************************************)
EXTENDS Integers, FiniteSets, Sequences, TLC

\* ---------------------------------------------------------------- bounds
MaxQ == 7          \* -min and -max are drawn from 0..MaxQ
MaxLoops == 3      \* -l is drawn from 0..MaxLoops and IntMax
MaxSize == 3       \* byte sizes are drawn from 1..MaxSize
IndexScale == 2    \* indices are k/IndexScale, k in 0..IndexScale
FloatBits == 6     \* mantissa bits of the float arithmetic of the statistics
MaxPixels == 4     \* an image has w*h <= MaxPixels pixels
MaxPix == 2        \* luminance values are drawn from 0..MaxPix

\* ------------------------------------------------------- machine integers
\* Go's int on a 32-bit build; on a 64-bit build the same at 2^63-1.
IntMax == 2147483647
IntMin == -IntMax - 1

\* attempt++ : two's complement wrap-around
Inc(a) == IF a = IntMax THEN IntMin ELSE a + 1

\* Go's integer division truncates toward zero
GoDiv(a, b) == IF a >= 0 THEN a \div b ELSE -((-a) \div b)

\* math.Max / math.Min on the float64 images of two small ints, back to int
MathMax(a, b) == IF a > b THEN a ELSE b
MathMin(a, b) == IF a < b THEN a ELSE b

\* ------------------------------------------------------------ float index
NaN == -1
Indexes == 0..IndexScale
\* IEEE comparisons: every comparison with NaN is false
FLt(a, b) == a # NaN /\ b # NaN /\ a < b
FGt(a, b) == a # NaN /\ b # NaN /\ a > b
FGe(a, b) == a # NaN /\ b # NaN /\ a >= b

\* ----------------------------------------------------------------- float64
\* float64 arithmetic at a reduced precision: a finite value is s * m * 2^e
\* with a mantissa m of FloatBits bits (or m = 0), every operation returns
\* the exact result rounded to nearest, ties to even, as IEEE 754 does; the
\* exponent is unbounded (pixel statistics neither overflow nor underflow).
Fin(s, m, e) == [k |-> "fin", s |-> s, m |-> m, e |-> e]
Zero == Fin(1, 0, 0)
Inf(s) == [k |-> "inf", s |-> s, m |-> 0, e |-> 0]
FNaN == [k |-> "nan", s |-> 1, m |-> 0, e |-> 0]

RECURSIVE BitLen(_)
BitLen(n) == IF n = 0 THEN 0 ELSE 1 + BitLen(n \div 2)

\* s * m * 2^e (and a little more when sticky) rounded to FloatBits bits
Round(s, m, e, sticky) ==
    IF m = 0 THEN Zero
    ELSE LET b == BitLen(m) IN
         IF b <= FloatBits
         THEN Fin(s, m * 2^(FloatBits - b), e - (FloatBits - b))
         ELSE LET sh == b - FloatBits
                  q == m \div 2^sh
                  r == m % 2^sh
                  half == 2^(sh - 1)
                  up == r > half \/ (r = half /\ (sticky \/ q % 2 = 1))
                  q1 == IF up THEN q + 1 ELSE q
              IN  IF q1 = 2^FloatBits
                  THEN Fin(s, 2^(FloatBits - 1), e + sh + 1)
                  ELSE Fin(s, q1, e + sh)

\* float64(n)
FromInt(n) == IF n < 0 THEN Round(-1, -n, 0, FALSE) ELSE Round(1, n, 0, FALSE)

\* the decimal literal n/d (n/d >= 1/128)
Literal(n, d) ==
    Round(1, (n * 2^(FloatBits + 8)) \div d, -(FloatBits + 8),
          (n * 2^(FloatBits + 8)) % d # 0)

FNeg(a) == [a EXCEPT !.s = IF a.k = "nan" \/ (a.k = "fin" /\ a.m = 0) THEN 1 ELSE -a.s]

\* a + b
FAdd(a, b) ==
    IF a.k = "nan" \/ b.k = "nan" THEN FNaN
    ELSE IF a.k = "inf" /\ b.k = "inf" THEN (IF a.s = b.s THEN a ELSE FNaN)
    ELSE IF a.k = "inf" THEN a
    ELSE IF b.k = "inf" THEN b
    ELSE IF a.m = 0 THEN b
    ELSE IF b.m = 0 THEN a
    ELSE LET hi == IF a.e >= b.e THEN a ELSE b
             lo == IF a.e >= b.e THEN b ELSE a
             gap == hi.e - lo.e
         IN  IF gap >= FloatBits + 3 THEN hi
             ELSE LET sum == hi.s * hi.m * 2^gap + lo.s * lo.m IN
                  IF sum < 0 THEN Round(-1, -sum, lo.e, FALSE)
                  ELSE Round(1, sum, lo.e, FALSE)

\* a - b
FSub(a, b) == FAdd(a, FNeg(b))

\* a * b
FMul(a, b) ==
    IF a.k = "nan" \/ b.k = "nan" THEN FNaN
    ELSE IF a.k = "inf" \/ b.k = "inf"
         THEN (IF (a.k = "fin" /\ a.m = 0) \/ (b.k = "fin" /\ b.m = 0)
               THEN FNaN ELSE Inf(a.s * b.s))
    ELSE Round(a.s * b.s, a.m * b.m, a.e + b.e, FALSE)

\* a / b
FDiv(a, b) ==
    IF a.k = "nan" \/ b.k = "nan" THEN FNaN
    ELSE IF a.k = "inf" THEN (IF b.k = "inf" THEN FNaN ELSE Inf(a.s * b.s))
    ELSE IF b.k = "inf" THEN Zero
    ELSE IF b.m = 0 THEN (IF a.m = 0 THEN FNaN ELSE Inf(a.s * b.s))
    ELSE IF a.m = 0 THEN Zero
    ELSE Round(a.s * b.s, (a.m * 2^(FloatBits + 2)) \div b.m,
               a.e - b.e - (FloatBits + 2),
               (a.m * 2^(FloatBits + 2)) % b.m # 0)

\* the largest r in lo..hi with r*r <= n
RECURSIVE ISqrt(_, _, _)
ISqrt(n, lo, hi) ==
    IF lo = hi THEN lo
    ELSE LET mid == (lo + hi + 1) \div 2 IN
         IF mid * mid <= n THEN ISqrt(n, mid, hi) ELSE ISqrt(n, lo, mid - 1)

\* math.Sqrt(a)
Sqrt(a) ==
    IF a.k = "nan" THEN FNaN
    ELSE IF a.k = "inf" THEN (IF a.s = 1 THEN a ELSE FNaN)
    ELSE IF a.m = 0 THEN Zero
    ELSE IF a.s = -1 THEN FNaN
    ELSE LET k == IF (a.e - (FloatBits + 4)) % 2 = 0
                  THEN FloatBits + 4 ELSE FloatBits + 5
             n == a.m * 2^k
             r == ISqrt(n, 0, 2^(FloatBits + 3))
         IN  Round(1, r, (a.e - k) \div 2, r * r # n)

\* math.Pow(a, 2.0): the rounded square
Pow2(a) == FMul(a, a)

\* ------------------------------------------------------------- statistics
\* the constants of the index
L == FromInt(255)
K1 == Literal(1, 100)
K2 == Literal(3, 100)
C1 == Pow2(FMul(K1, L))
C2 == Pow2(FMul(K2, L))
One == FromInt(1)
Two == FromInt(2)

\* a gray image: w columns, h rows, pix the luminances, column after column
Shapes == {wh \in (1..MaxPixels) \X (1..MaxPixels) : wh[1] * wh[2] <= MaxPixels}
Pictures ==
    UNION {[w : {wh[1]}, h : {wh[2]}, pix : [1..(wh[1] * wh[2]) -> 0..MaxPix]] :
              wh \in Shapes}

\* img.At(x, y) of an image.Gray (the zero color outside its bounds), and the
\* red channel color.Gray reports for it
At(img, x, y) == IF x < img.w /\ y < img.h THEN img.pix[x * img.h + y + 1] ELSE 0
RGBA(c) == c * 257

getPixVal(c) == FromInt(RGBA(c) \div 256)

dim(img) == <<img.w, img.h>>

equalDim_WidthOnly(img1, img2) == dim(img1)[1] = dim(img2)[1]

equalDim(img1, img2) ==
    dim(img1)[1] = dim(img2)[1] /\ dim(img1)[2] = dim(img2)[2]

\* the loops "for x ... for y ..." visit pixel k at x = k \div h, y = k % h
RECURSIVE MeanLoop(_, _, _)
MeanLoop(img, k, sum) ==
    IF k = img.w * img.h THEN sum
    ELSE MeanLoop(img, k + 1,
                  FAdd(sum, getPixVal(At(img, k \div img.h, k % img.h))))

mean(img) == FDiv(MeanLoop(img, 0, Zero), FromInt(img.w * img.h - 1))

RECURSIVE StdevLoop(_, _, _, _)
StdevLoop(img, avg, k, sum) ==
    IF k = img.w * img.h THEN sum
    ELSE LET pix == getPixVal(At(img, k \div img.h, k % img.h)) IN
         StdevLoop(img, avg, k + 1, FAdd(sum, Pow2(FSub(pix, avg))))

stdev(img) ==
    Sqrt(FDiv(StdevLoop(img, mean(img), 0, Zero), FromInt(img.w * img.h - 1)))

RECURSIVE CovarLoop(_, _, _, _, _, _)
CovarLoop(img1, img2, avg1, avg2, k, sum) ==
    IF k = img1.w * img1.h THEN sum
    ELSE LET pix1 == getPixVal(At(img1, k \div img1.h, k % img1.h))
             pix2 == getPixVal(At(img2, k \div img1.h, k % img1.h))
         IN  CovarLoop(img1, img2, avg1, avg2, k + 1,
                       FAdd(sum, FMul(FSub(pix1, avg1), FSub(pix2, avg2))))

DimensionMismatch == "images must have same dimension"

covar(img1, img2) ==
    IF ~equalDim(img1, img2) THEN [c |-> Zero, err |-> DimensionMismatch]
    ELSE [c |-> FDiv(CovarLoop(img1, img2, mean(img1), mean(img2), 0, Zero),
                     FromInt(img1.w * img1.h - 1)),
          err |-> ""]

ssim_UnsquaredStdev(x, y) ==
    LET avgX == mean(x)
        avgY == mean(y)
        stdevX == stdev(x)
        stdevY == stdev(y)
        cov == covar(x, y)
        numerator == FMul(FAdd(FMul(FMul(Two, avgX), avgY), C1),
                          FAdd(FMul(Two, cov.c), C2))
        denominator == FMul(FAdd(FAdd(Pow2(avgX), Pow2(avgY)), C1),
                            FAdd(FAdd(stdevX, stdevY), C2))
    IN  IF cov.err # "" THEN Zero ELSE FDiv(numerator, denominator)

ssim(x, y) ==
    LET avgX == mean(x)
        avgY == mean(y)
        stdevX == stdev(x)
        stdevY == stdev(y)
        cov == covar(x, y)
        numerator == FMul(FAdd(FMul(FMul(Two, avgX), avgY), C1),
                          FAdd(FMul(Two, cov.c), C2))
        denominator == FMul(FAdd(FAdd(Pow2(avgX), Pow2(avgY)), C1),
                            FAdd(FAdd(Pow2(stdevX), Pow2(stdevY)), C2))
    IN  IF cov.err # "" THEN Zero ELSE FDiv(numerator, denominator)

\* what a call of one of the statistics left behind
NoPicture == [w |-> 0, h |-> 0, pix |-> <<>>]
NoStat == [fn |-> "none", value |-> Zero, err |-> ""]
Returned(fn, value, err) == [fn |-> fn, value |-> value, err |-> err]

\* ------------------------------------------------------------------ codec
Sizes == 1..MaxSize
Images == {"original", "originalGray"}
EncodeError == [kind |-> "EncodeError", size |-> 0, index |-> 0]
DecodeError == [kind |-> "DecodeError", size |-> 0, index |-> 0]
Candidate(s, i) == [kind |-> "ok", size |-> s, index |-> i]

\* what ssim can return for the image at hand
SsimValues(one) == IF one THEN {NaN} ELSE Indexes

\* the answers compare(img, q) can give
CompareResults(one) ==
    {EncodeError, DecodeError} \cup
    {Candidate(s, i) : s \in Sizes, i \in SsimValues(one)}

\* the answers encodeToJPEGBytes(img, q) can give
EncodeResults == {EncodeError} \cup {Candidate(s, 0) : s \in Sizes}

\* ------------------------------------------------------------ checkArgs
checkArgs(max, min, tgt, lps) ==
    LET m1 == IF max < 1 \/ max > 100 THEN "max" ELSE ""
        m2 == IF min < 0 \/ min > 99 THEN "min" ELSE m1
        m3 == IF tgt <= 0 \/ tgt > IndexScale THEN "target" ELSE m2
        m4 == IF lps <= 0 THEN "loops" ELSE m3
    IN  m4 = ""

VARIABLES
    minQ, maxQ,        \* the bracket
    target, loops,     \* -t, -l
    noCopy,            \* -c
    originalSize,      \* getFilesize(src)
    onePixel,          \* the source image has w*h = 1
    srcIsJpeg,         \* what isJpeg(src) answers
    attempt,           \* the loop counter
    bestSize, bestQ, bestIndex,
    fallbackSize, fallbackQ, fallbackIndex,
    codec,             \* <<image, quality>> -> the codec's answer, once asked
    nEval,             \* candidates evaluated, saturating at EvalCap
    trail,             \* the candidates in the order evaluated, at most EvalCap
    pc,                \* "loop", "select", "done", "panicCompare", "panicOutput"
    output,            \* what became of dest
    imgX, imgY,        \* the images handed to the statistics
    stat               \* the last statistic computed, and what it returned

vars == <<minQ, maxQ, target, loops, noCopy, originalSize, onePixel, srcIsJpeg, attempt,
          bestSize, bestQ, bestIndex, fallbackSize, fallbackQ, fallbackIndex,
          codec, nEval, trail, pc, output, imgX, imgY, stat>>

config == <<target, loops, noCopy, originalSize, onePixel, srcIsJpeg>>
best == <<bestSize, bestQ, bestIndex>>
fallback == <<fallbackSize, fallbackQ, fallbackIndex>>
statistics == <<imgX, imgY, stat>>

EvalCap == MaxLoops + 2
\* dest: what it holds (kind, the quality and size written) and the error met
NoOutput == [kind |-> "none", quality |-> 0, size |-> 0, error |-> ""]
Failed(e) == [kind |-> "none", quality |-> 0, size |-> 0, error |-> e]
Written(kind, q, size) == [kind |-> kind, quality |-> q, size |-> size, error |-> ""]

\* main() up to the loop: flags accepted by checkArgs, the zero values of Go
Init ==
    /\ minQ \in 0..MaxQ
    /\ maxQ \in 0..MaxQ
    /\ target \in 0..IndexScale
    /\ loops \in (0..MaxLoops) \cup {IntMax}
    /\ checkArgs(maxQ, minQ, target, loops)
    /\ noCopy \in BOOLEAN
    /\ originalSize \in Sizes
    /\ onePixel \in BOOLEAN
    /\ srcIsJpeg \in BOOLEAN
    /\ attempt = 1
    /\ bestSize = originalSize /\ bestQ = 0 /\ bestIndex = 0
    /\ fallbackSize = 0 /\ fallbackQ = 0 /\ fallbackIndex = 0
    /\ codec = <<>>
    /\ nEval = 0
    /\ trail = <<>>
    /\ pc = "loop"
    /\ output = NoOutput
    /\ imgX = NoPicture /\ imgY = NoPicture /\ stat = NoStat

\* a midpoint that rounds half up
Midpoint_RoundsUp(lo, hi) == lo + GoDiv(hi - lo + 1, 2)

\* var q = minQ + (maxQ-minQ)/2
Midpoint(lo, hi) == lo + GoDiv(hi - lo, 2)

\* the codec is deterministic: a pair asked before gets the same answer
Answers(img, q, fresh) ==
    IF <<img, q>> \in DOMAIN codec THEN {codec[<<img, q>>]} ELSE fresh

Remember(img, q, r) ==
    IF <<img, q>> \in DOMAIN codec THEN codec
    ELSE [k \in DOMAIN codec \cup {<<img, q>>} |->
            IF k = <<img, q>> THEN r ELSE codec[k]]

\* the image main hands to compare
SearchImage == "originalGray"

\* the trail with the candidate of this attempt added
Record(q, r) ==
    IF Len(trail) < EvalCap
    THEN Append(trail, [quality |-> q, size |-> r.size, index |-> r.index])
    ELSE trail

\* for attempt <= loops fails
LoopExit ==
    /\ pc = "loop"
    /\ ~(attempt <= loops)
    /\ pc' = "select"
    /\ UNCHANGED <<minQ, maxQ, config, statistics, attempt, best, fallback, codec, nEval, trail, output>>

\* a loop that tests the bracket only after evaluating the midpoint
Collapsed_Evaluates ==
    /\ pc = "loop"
    /\ attempt <= loops
    /\ minQ = maxQ
    /\ \E r \in Answers(SearchImage, minQ, CompareResults(onePixel)) :
          /\ r.kind = "ok"
          /\ codec' = Remember(SearchImage, minQ, r)
          /\ bestSize' = IF r.size < bestSize /\ FGe(r.index, target)
                         THEN r.size ELSE bestSize
          /\ trail' = Record(minQ, r)
    /\ nEval' = IF nEval < EvalCap THEN nEval + 1 ELSE nEval
    /\ pc' = "select"
    /\ UNCHANGED <<minQ, maxQ, config, statistics, attempt, bestQ, bestIndex, fallback, output>>

\* if minQ == maxQ { break }
Collapsed ==
    /\ pc = "loop"
    /\ attempt <= loops
    /\ minQ = maxQ
    /\ pc' = "select"
    /\ UNCHANGED <<minQ, maxQ, config, statistics, attempt, best, fallback, codec, nEval, trail, output>>

\* a loop that logs the error of compare and goes on to the output
AttemptFails_GoesOn ==
    /\ pc = "loop"
    /\ attempt <= loops
    /\ minQ # maxQ
    /\ LET q == Midpoint(minQ, maxQ) IN
       \E r \in Answers(SearchImage, q, CompareResults(onePixel)) :
          /\ r.kind # "ok"
          /\ codec' = Remember(SearchImage, q, r)
    /\ pc' = "select"
    /\ UNCHANGED <<minQ, maxQ, config, statistics, attempt, best, fallback, nEval, trail, output>>

\* compare returns an error: panic("Error when comparing images")
AttemptFails ==
    /\ pc = "loop"
    /\ attempt <= loops
    /\ minQ # maxQ
    /\ LET q == Midpoint(minQ, maxQ) IN
       \E r \in Answers(SearchImage, q, CompareResults(onePixel)) :
          /\ r.kind # "ok"
          /\ codec' = Remember(SearchImage, q, r)
    /\ pc' = "panicCompare"
    /\ UNCHANGED <<minQ, maxQ, config, statistics, attempt, best, fallback, nEval, trail, output>>

\* a decision table that also narrows the bracket when it forces the stop
Decide_NarrowsOnStop(q, newSize, index) ==
    IF newSize >= originalSize
    THEN IF FLt(index, target)
         THEN [attempt |-> loops, minQ |-> minQ, maxQ |-> MathMax(q - 1, minQ)]
         ELSE [attempt |-> attempt, minQ |-> minQ, maxQ |-> MathMax(q - 1, minQ)]
    ELSE IF FLt(index, target)
         THEN [attempt |-> attempt, minQ |-> MathMin(q + 1, maxQ), maxQ |-> maxQ]
         ELSE IF FGt(index, target)
              THEN [attempt |-> attempt, minQ |-> minQ, maxQ |-> MathMax(q - 1, minQ)]
              ELSE [attempt |-> loops, minQ |-> MathMin(q + 1, maxQ), maxQ |-> maxQ]

\* a decision table that narrows to q-1 and q+1 without clamping
Decide_Unclamped(q, newSize, index) ==
    IF newSize >= originalSize
    THEN IF FLt(index, target)
         THEN [attempt |-> loops, minQ |-> minQ, maxQ |-> maxQ]
         ELSE [attempt |-> attempt, minQ |-> minQ, maxQ |-> q - 1]
    ELSE IF FLt(index, target)
         THEN [attempt |-> attempt, minQ |-> q + 1, maxQ |-> maxQ]
         ELSE IF FGt(index, target)
              THEN [attempt |-> attempt, minQ |-> minQ, maxQ |-> q - 1]
              ELSE [attempt |-> loops, minQ |-> minQ, maxQ |-> maxQ]

\* the 2x2 decision table: the bracket and the counter after it
Decide(q, newSize, index) ==
    IF newSize >= originalSize
    THEN IF FLt(index, target)
         THEN [attempt |-> loops, minQ |-> minQ, maxQ |-> maxQ]
         ELSE [attempt |-> attempt, minQ |-> minQ, maxQ |-> MathMax(q - 1, minQ)]
    ELSE IF FLt(index, target)
         THEN [attempt |-> attempt, minQ |-> MathMin(q + 1, maxQ), maxQ |-> maxQ]
         ELSE IF FGt(index, target)
              THEN [attempt |-> attempt, minQ |-> minQ, maxQ |-> MathMax(q - 1, minQ)]
              ELSE [attempt |-> loops, minQ |-> minQ, maxQ |-> maxQ]

\* a best update that lets a later candidate of equal size win
UpdateBest_LatestOnTies(q, newSize, index) ==
    IF newSize <= bestSize /\ newSize < originalSize /\ FGe(index, target)
    THEN <<newSize, q, index>>
    ELSE <<bestSize, bestQ, bestIndex>>

\* a best update that forgets the similarity floor
UpdateBest_NoTarget(q, newSize, index) ==
    IF newSize < bestSize
    THEN <<newSize, q, index>>
    ELSE <<bestSize, bestQ, bestIndex>>

\* a best update that compares with the original instead of the best so far
UpdateBest_VsOriginal(q, newSize, index) ==
    IF newSize < originalSize /\ FGe(index, target)
    THEN <<newSize, q, index>>
    ELSE <<bestSize, bestQ, bestIndex>>

\* if newSize < bestSize && index >= target
UpdateBest(q, newSize, index) ==
    IF newSize < bestSize /\ FGe(index, target)
    THEN <<newSize, q, index>>
    ELSE <<bestSize, bestQ, bestIndex>>

\* the fallback bookkeeping
UpdateFallback(q, newSize, index) ==
    LET fs == IF fallbackSize = 0 THEN newSize ELSE fallbackSize IN
    IF newSize <= originalSize /\ newSize > fs
    THEN <<newSize, q, index>>
    ELSE IF newSize > originalSize /\ newSize < fs
         THEN <<newSize, q, index>>
         ELSE <<fs, fallbackQ, fallbackIndex>>

\* one pass of the loop body with a candidate, and attempt++
Attempt ==
    /\ pc = "loop"
    /\ attempt <= loops
    /\ minQ # maxQ
    /\ LET q == Midpoint(minQ, maxQ) IN
       \E r \in Answers(SearchImage, q, CompareResults(onePixel)) :
          /\ r.kind = "ok"
          /\ codec' = Remember(SearchImage, q, r)
          /\ LET d == Decide(q, r.size, r.index)
                 b == UpdateBest(q, r.size, r.index)
                 f == UpdateFallback(q, r.size, r.index)
             IN  /\ minQ' = d.minQ
                 /\ maxQ' = d.maxQ
                 /\ attempt' = Inc(d.attempt)
                 /\ bestSize' = b[1] /\ bestQ' = b[2] /\ bestIndex' = b[3]
                 /\ fallbackSize' = f[1] /\ fallbackQ' = f[2] /\ fallbackIndex' = f[3]
          /\ trail' = Record(q, r)
    /\ nEval' = IF nEval < EvalCap THEN nEval + 1 ELSE nEval
    /\ pc' = "loop"
    /\ UNCHANGED <<config, statistics, output>>

\* save(p, data): when os.Create fails the error is logged and nothing is written
save(kind, q, size, created) ==
    IF created THEN Written(kind, q, size) ELSE Failed("create")

\* the image main hands to the final encodeToJPEGBytes
OutputImage == "original"

\* if bestSize < originalSize: encode the original at bestQ and save it
SaveBest ==
    /\ pc = "select"
    /\ bestSize < originalSize
    /\ \E r \in Answers(OutputImage, bestQ, EncodeResults) :
          /\ codec' = Remember(OutputImage, bestQ, r)
          /\ IF r.kind # "ok"
             THEN pc' = "panicOutput" /\ output' = Failed("encode")
             ELSE /\ pc' = "done"
                  /\ \E created \in BOOLEAN :
                        output' = save("best", bestQ, r.size, created)
    /\ UNCHANGED <<minQ, maxQ, config, statistics, attempt, best, fallback, nEval, trail>>

\* else if noCopy: "not saving any image"
NoMatch ==
    /\ pc = "select"
    /\ ~(bestSize < originalSize)
    /\ noCopy
    /\ pc' = "done"
    /\ UNCHANGED <<minQ, maxQ, config, statistics, attempt, best, fallback, codec, nEval, trail, output>>

\* copyFile(src, dest): the copy, or an error with dest absent or cut short
copyFile ==
    {Written("copy", 0, originalSize), Failed("copy"),
     [kind |-> "partial", quality |-> 0, size |-> 0, error |-> "copy"]}

\* else if isJpeg(src): copyFile(src, dest), panic when it fails
CopySource ==
    /\ pc = "select"
    /\ ~(bestSize < originalSize)
    /\ ~noCopy
    /\ srcIsJpeg
    /\ output' \in copyFile
    /\ pc' = IF output'.error = "" THEN "done" ELSE "panicOutput"
    /\ UNCHANGED <<minQ, maxQ, config, statistics, attempt, best, fallback, codec, nEval, trail>>

\* a fallback that is written although -c was given
SaveFallback_IgnoresNoCopy ==
    /\ pc = "select"
    /\ ~(bestSize < originalSize)
    /\ ~srcIsJpeg
    /\ \E r \in Answers(OutputImage, fallbackQ, EncodeResults) :
          /\ codec' = Remember(OutputImage, fallbackQ, r)
          /\ IF r.kind # "ok"
             THEN pc' = "panicOutput" /\ output' = Failed("encode")
             ELSE /\ pc' = "done"
                  /\ \E created \in BOOLEAN :
                        output' = save("fallback", fallbackQ, r.size, created)
    /\ UNCHANGED <<minQ, maxQ, config, statistics, attempt, best, fallback, nEval, trail>>

\* else: encode the original at fallbackQ and save it
SaveFallback ==
    /\ pc = "select"
    /\ ~(bestSize < originalSize)
    /\ ~noCopy
    /\ ~srcIsJpeg
    /\ \E r \in Answers(OutputImage, fallbackQ, EncodeResults) :
          /\ codec' = Remember(OutputImage, fallbackQ, r)
          /\ IF r.kind # "ok"
             THEN pc' = "panicOutput" /\ output' = Failed("encode")
             ELSE /\ pc' = "done"
                  /\ \E created \in BOOLEAN :
                        output' = save("fallback", fallbackQ, r.size, created)
    /\ UNCHANGED <<minQ, maxQ, config, statistics, attempt, best, fallback, nEval, trail>>

Next ==
    \/ LoopExit
    \/ Collapsed
    \/ AttemptFails
    \/ Attempt
    \/ SaveBest
    \/ NoMatch
    \/ CopySource
    \/ SaveFallback

Spec == Init /\ [][Next]_vars

\* ----------------------------------------------- the statistics on their own
\* mean, stdev, covar and ssim are pure: they are applied here to bounded
\* images, outside any search.
Mirror(img) ==
    [img EXCEPT !.pix = [i \in DOMAIN img.pix |-> img.pix[img.w * img.h + 1 - i]]]
Flat(wh, v) == [w |-> wh[1], h |-> wh[2], pix |-> [i \in 1..(wh[1] * wh[2]) |-> v]]

InitSsim ==
    /\ imgX \in Pictures
    /\ imgY \in {imgX, Mirror(imgX)} \cup {Flat(wh, v) : wh \in Shapes, v \in 0..MaxPix}
    /\ stat = NoStat
    /\ minQ = 0 /\ maxQ = 1 /\ target = IndexScale /\ loops = 1
    /\ noCopy = FALSE /\ originalSize = 1 /\ srcIsJpeg = TRUE
    /\ onePixel = (imgX.w * imgX.h = 1)
    /\ attempt = 1
    /\ bestSize = originalSize /\ bestQ = 0 /\ bestIndex = 0
    /\ fallbackSize = 0 /\ fallbackQ = 0 /\ fallbackIndex = 0
    /\ codec = <<>> /\ nEval = 0 /\ trail = <<>>
    /\ pc = "ssim"
    /\ output = NoOutput

search == <<minQ, maxQ, config, attempt, best, fallback, codec, nEval, trail, pc, output>>

CallMean ==
    /\ pc = "ssim" /\ stat = NoStat
    /\ stat' = Returned("mean", mean(imgX), "")
    /\ UNCHANGED <<search, imgX, imgY>>

CallStdev ==
    /\ pc = "ssim" /\ stat = NoStat
    /\ stat' = Returned("stdev", stdev(imgX), "")
    /\ UNCHANGED <<search, imgX, imgY>>

CallCovar ==
    /\ pc = "ssim" /\ stat = NoStat
    /\ stat' = Returned("covar", covar(imgX, imgY).c, covar(imgX, imgY).err)
    /\ UNCHANGED <<search, imgX, imgY>>

CallSsim ==
    /\ pc = "ssim" /\ stat = NoStat
    /\ stat' = Returned("ssim", ssim(imgX, imgY), "")
    /\ UNCHANGED <<search, imgX, imgY>>

NextSsim ==
    \/ CallMean
    \/ CallStdev
    \/ CallCovar
    \/ CallSsim

SpecSsim == InitSsim /\ [][NextSsim]_vars

\* ------------------------------------------------------------ vocabulary
\* the candidates the search has evaluated so far
Evaluated ==
    {[quality |-> k[2], size |-> codec[k].size, index |-> codec[k].index] :
        k \in {j \in DOMAIN codec : j[1] = SearchImage /\ codec[j].kind = "ok"}}

\* the loop has been left normally
SearchOver == pc \in {"select", "done", "panicOutput"}

BestSet == bestSize # originalSize

SetMax(S) == CHOOSE x \in S : \A y \in S : y <= x

TypeOK ==
    /\ pc \in {"loop", "select", "done", "panicCompare", "panicOutput"}
    /\ output.kind \in {"none", "best", "copy", "fallback", "partial"}
    /\ nEval \in 0..EvalCap

\* ----------------------------------------------------------------- claims

\* C1: the loop evaluates at most loops candidates, and every pass of the
\* loop body leaves the attempt counter strictly larger than it found it,
\* the passes that set attempt to loops included.
C1_AttemptsBounded ==
    [][(pc = "loop" /\ pc' = "loop") =>
          (attempt' > attempt /\ nEval' <= loops)]_vars

\* C1 for every loops below the largest int, where attempt++ cannot wrap:
\* the counter grows on every pass and at most loops candidates are evaluated.
C1_BelowIntMax ==
    [][(loops < IntMax /\ pc = "loop" /\ pc' = "loop") =>
          (attempt' > attempt /\ nEval' <= loops /\ nEval' < attempt')]_vars

\* C2: in every reachable state, if best is set (bestSize differs from
\* originalSize) then bestSize < originalSize and bestIndex >= target.
C2_BestInvariant ==
    BestSet => (bestSize < originalSize /\ FGe(bestIndex, target))

C2_Witness == SearchOver /\ BestSet /\ nEval >= 2

\* C3 as claimed: at termination with best set, no quality of the final
\* bracket that was never evaluated can have, under any answer the codec may
\* give for it, a size below bestSize together with an index >= target.
C3_NoBetterUnexamined ==
    (SearchOver /\ BestSet) =>
        \A q \in minQ..maxQ :
            <<SearchImage, q>> \notin DOMAIN codec =>
                \A r \in CompareResults(onePixel) :
                    r.kind = "ok" => ~(r.size < bestSize /\ FGe(r.index, target))

\* C3 as amended: at termination with best set, no quality that WAS
\* evaluated has a size below bestSize together with an index >= target.
C3_NoBetterExamined ==
    (SearchOver /\ BestSet) =>
        \A c \in Evaluated : ~(c.size < bestSize /\ FGe(c.index, target))

C3_Witness ==
    /\ SearchOver /\ BestSet
    /\ \E c \in Evaluated : c.size > bestSize /\ FGe(c.index, target)
    /\ \E q \in minQ..maxQ : <<SearchImage, q>> \notin DOMAIN codec

C5_FailedAttemptAborts ==
    [][/\ (/\ pc = "loop" /\ attempt <= loops /\ minQ # maxQ
           /\ codec'[<<SearchImage, Midpoint(minQ, maxQ)>>].kind # "ok")
          => (/\ pc' = "panicCompare"
              /\ output' = NoOutput
              /\ UNCHANGED <<minQ, maxQ, attempt, best, fallback, nEval, trail>>)
       /\ pc # "panicCompare"]_vars

C5_Witness == pc = "panicCompare" /\ BestSet /\ output = NoOutput

\* C6: at termination, if some evaluated candidate had size <= originalSize,
\* fallbackSize is the largest size among the evaluated candidates with
\* size <= originalSize.
C6_FallbackClosestBelow ==
    SearchOver =>
        LET below == {c.size : c \in {e \in Evaluated : e.size <= originalSize}}
        IN  below # {} => fallbackSize = SetMax(below)

\* C7: at entry to every attempt of a run accepted by checkArgs,
\* 0 <= minQ <= maxQ <= 100.
C7_BracketOrdered ==
    (pc = "loop" /\ attempt <= loops) =>
        (0 <= minQ /\ minQ <= maxQ /\ maxQ <= 100)

\* C8: from a bracket with 0 <= minQ <= maxQ <= 100, a step never lowers
\* minQ, never raises maxQ, and leaves maxQ - minQ no larger and not negative.
C8_BracketShrinks ==
    [][(0 <= minQ /\ minQ <= maxQ /\ maxQ <= 100) =>
          /\ minQ' >= minQ
          /\ maxQ' <= maxQ
          /\ maxQ' - minQ' <= maxQ - minQ
          /\ maxQ' - minQ' >= 0]_vars

C8_Witness ==
    /\ pc = "loop" /\ nEval >= 2
    /\ 0 < minQ /\ minQ <= maxQ /\ maxQ < MaxQ

\* C9: during the search the encoder is given the image that the output is
\* later encoded from (the original, not the grayscale reference), so that a
\* candidate's size is the size of encoding the original at its quality.
C9_EncodesOriginal ==
    (pc \in {"loop", "select", "panicCompare"}) =>
        \A k \in DOMAIN codec : k[1] = OutputImage

\* C10: an attempt that begins with minQ = maxQ ends the search without
\* evaluating a candidate and without touching best or fallback; on attempt 1
\* best is then unset, and an unset best never leads to the best output.
C10_CollapsedBracketStops ==
    [][/\ (pc = "loop" /\ attempt <= loops /\ minQ = maxQ)
          => (/\ pc' = "select"
              /\ UNCHANGED <<best, fallback, codec, nEval, minQ, maxQ>>
              /\ (attempt = 1 => ~BestSet'))
       /\ (pc = "select" /\ ~BestSet) => output'.kind # "best"]_vars

C10_Witness == pc = "select" /\ attempt = 1 /\ nEval = 0 /\ minQ = maxQ

\* --------------------------------------------- vocabulary of the attempts
\* the candidate of the latest attempt
Last == trail[Len(trail)]

\* a step that is one pass of the loop body with a candidate
AttemptStep == pc = "loop" /\ pc' = "loop"

\* the candidate takes one of the two branches that set attempt = loops
ForcesStop(c) ==
    IF c.size >= originalSize
    THEN FLt(c.index, target)
    ELSE ~FLt(c.index, target) /\ ~FGt(c.index, target)

\* C14 as claimed: an attempt with minQ < maxQ tries the integer midpoint
\* q = minQ + (maxQ - minQ) / 2, minQ <= q <= maxQ, and with two middle
\* values (maxQ - minQ odd) the one nearer maxQ.
C14_MidpointTowardMax ==
    [][(AttemptStep /\ minQ < maxQ) =>
          /\ Last'.quality = minQ + (maxQ - minQ) \div 2
          /\ minQ <= Last'.quality /\ Last'.quality <= maxQ
          /\ ((maxQ - minQ) % 2 = 1 => maxQ - Last'.quality < Last'.quality - minQ)]_vars

\* C14 as amended: the same midpoint, and with two middle values the one
\* nearer minQ (the division truncates).
C14_MidpointTowardMin ==
    [][(AttemptStep /\ minQ < maxQ) =>
          /\ Last'.quality = minQ + (maxQ - minQ) \div 2
          /\ minQ <= Last'.quality /\ Last'.quality <= maxQ
          /\ ((maxQ - minQ) % 2 = 1 => Last'.quality - minQ < maxQ - Last'.quality)]_vars

C14_Witness ==
    /\ pc = "loop" /\ Len(trail) = 1 /\ attempt > loops
    /\ minQ < maxQ /\ (maxQ - minQ) % 2 = 1
    /\ 2 * Last.quality = minQ + maxQ - 1

\* C15: after an attempt whose candidate has size >= originalSize with
\* index < target, or size < originalSize with index = target, the loop is
\* over (attempt > loops, so no further candidate is evaluated); in the first
\* case on attempt 1 best stays unset.
C15_StopIsImmediate ==
    [][(/\ AttemptStep
        /\ \/ Last'.size >= originalSize /\ FLt(Last'.index, target)
           \/ Last'.size < originalSize /\ Last'.index = target)
       => /\ attempt' > loops
          /\ (attempt = 1 /\ Last'.size >= originalSize) => ~BestSet']_vars

\* C15 for every loops below the largest int, where attempt++ cannot wrap.
C15_BelowIntMax ==
    [][(/\ AttemptStep /\ loops < IntMax
        /\ \/ Last'.size >= originalSize /\ FLt(Last'.index, target)
           \/ Last'.size < originalSize /\ Last'.index = target)
       => /\ attempt' > loops
          /\ (attempt = 1 /\ Last'.size >= originalSize) => ~BestSet']_vars

\* C16: an attempt at quality q that does not force the stop changes exactly
\* one bound: minQ' = min(q+1, maxQ) with maxQ kept when size < originalSize
\* and index < target; maxQ' = max(q-1, minQ) with minQ kept when
\* index >= target and size >= originalSize, or index > target and
\* size < originalSize.  An attempt that forces the stop changes neither.
C16_OneBoundMoves ==
    [][AttemptStep =>
          LET c == Last' IN
          IF ForcesStop(c)
          THEN minQ' = minQ /\ maxQ' = maxQ
          ELSE /\ (minQ' # minQ) # (maxQ' # maxQ)
               /\ (c.size < originalSize /\ FLt(c.index, target))
                     => (minQ' = MathMin(c.quality + 1, maxQ) /\ maxQ' = maxQ)
               /\ (\/ c.size >= originalSize /\ FGe(c.index, target)
                   \/ c.size < originalSize /\ FGt(c.index, target))
                     => (maxQ' = MathMax(c.quality - 1, minQ) /\ minQ' = minQ)]_vars

C16_Witness ==
    /\ pc = "loop" /\ Len(trail) = 2
    /\ trail[1].size < originalSize /\ FLt(trail[1].index, target)
    /\ trail[2].size < originalSize /\ FGt(trail[2].index, target)
    /\ minQ = trail[1].quality + 1 /\ maxQ = trail[2].quality - 1

\* ------------------------------------------------ vocabulary of the trail
\* the positions of the trail whose candidate is smaller than the original
\* and meets the target
Qualifying ==
    {i \in 1..Len(trail) :
        trail[i].size < originalSize /\ FGe(trail[i].index, target)}

\* the earliest position among the qualifying candidates of minimum size
FirstSmallest ==
    CHOOSE i \in Qualifying :
        \A j \in Qualifying :
            trail[i].size < trail[j].size
            \/ (trail[i].size = trail[j].size /\ i <= j)

\* C17: after every attempt (the stopping one included) best is the earliest
\* candidate of minimum size among those evaluated with index >= target and
\* size < originalSize, bestQ and bestIndex being that candidate's; best is
\* unset iff there is none.
C17_BestIsFirstSmallest ==
    /\ BestSet = (Qualifying # {})
    /\ Qualifying # {} =>
          /\ bestSize = trail[FirstSmallest].size
          /\ bestQ = trail[FirstSmallest].quality
          /\ bestIndex = trail[FirstSmallest].index

C17_Witness ==
    /\ Len(trail) = 3 /\ Qualifying = {1, 2, 3}
    /\ trail[2].size < trail[1].size /\ trail[3].size = trail[2].size
    /\ bestQ = trail[2].quality

C17_WitnessFirstAttempt == Len(trail) = 1 /\ Qualifying = {1} /\ BestSet

\* C18: when the output is about to be encoded at fallbackQ after a search
\* that evaluated a candidate, fallbackQ, fallbackSize and fallbackIndex are
\* the quality, size and index of one candidate the search evaluated.
C18_FallbackIsACandidate ==
    (/\ pc = "select" /\ ~(bestSize < originalSize) /\ ~noCopy /\ ~srcIsJpeg
     /\ Len(trail) >= 1) =>
        \E i \in 1..Len(trail) :
            /\ trail[i].quality = fallbackQ
            /\ trail[i].size = fallbackSize
            /\ trail[i].index = fallbackIndex

\* C19: when the output has been encoded at bestQ and written, its size is
\* bestSize and so is below originalSize.
C19_WrittenSizeIsBestSize ==
    (pc = "done" /\ output.kind = "best") =>
        (output.size = bestSize /\ output.size < originalSize)

\* C20: no quality is evaluated twice: an attempt evaluates a quality not
\* evaluated before, and after an attempt that does not force the stop the
\* quality lies outside the new bracket or the bracket has collapsed.
C20_NoQualityTwice ==
    [][AttemptStep =>
          /\ <<SearchImage, Last'.quality>> \notin DOMAIN codec
          /\ ~ForcesStop(Last') =>
                \/ Last'.quality \notin minQ'..maxQ'
                \/ minQ' = maxQ']_vars

\* C20 for every loops below the largest int, where attempt++ cannot wrap.
C20_BelowIntMax ==
    [][(AttemptStep /\ loops < IntMax) =>
          /\ <<SearchImage, Last'.quality>> \notin DOMAIN codec
          /\ ~ForcesStop(Last') =>
                \/ Last'.quality \notin minQ'..maxQ'
                \/ minQ' = maxQ']_vars

\* ------------------------------------------------------------- statistics
Pixels(img) == img.w * img.h
Called(fn) == pc = "ssim" /\ stat.fn = fn

\* |v - 1| in units of 2^-FloatBits, the spacing of the floats just below 1
UnitsFromOne(v) ==
    IF v.k # "fin" \/ v.s # 1 THEN 2^FloatBits
    ELSE IF v.e = -(FloatBits - 1) THEN 2 * (v.m - 2^(FloatBits - 1))
    ELSE IF v.e = -FloatBits THEN 2^FloatBits - v.m
    ELSE 2^FloatBits

C12_DimensionGuard ==
    /\ Called("covar") =>
          /\ stat.err \in {"", DimensionMismatch}
          /\ stat.err = DimensionMismatch <=>
                (imgX.w # imgY.w \/ imgX.h # imgY.h)
    /\ (Called("ssim") /\ (imgX.w # imgY.w \/ imgX.h # imgY.h)) =>
          stat.value = Zero /\ stat.err = ""

C12_Witness ==
    /\ Called("ssim") /\ imgX.w = imgY.w /\ imgX.h # imgY.h
    /\ Pixels(imgX) >= 2 /\ Pixels(imgY) >= 2
    /\ stat.value = Zero /\ stat.err = ""

\* C13: for every image with N = w*h >= 2 pixels, mean(img) is the sum of
\* the luminances divided by N.
C13_MeanIsArithmetic ==
    (Called("mean") /\ Pixels(imgX) >= 2) =>
        stat.value = FDiv(MeanLoop(imgX, 0, Zero), FromInt(Pixels(imgX)))

====
